---- MODULE Spec2Model ----
(***************************************************************************)
(* The PCF8523 real-time-clock drivers of this repository as a state       *)
(* machine over the chip's register file.                                  *)
(*                                                                         *)
(*   "legacy"  : src/adafruit_pcf8523.py (MicroPython, _BaseRTC/PCF8523),  *)
(*               lost power at register 0x02 bit 3.                        *)
(*   "package" : src/adafruit_pcf8523/{pcf8523,timer,clock}.py, whose      *)
(*               accessors are descriptors of the adafruit_register        *)
(*               library, lost power at register 0x03 bit 7.  The library  *)
(*               is not part of the sources; its accessors are modelled    *)
(*               from sections 4.2-4.4 of the specification.               *)
(***************************************************************************)
EXTENDS Integers, Sequences, FiniteSets, TLC

VARIABLES
    variant,   \* which driver is bound to the chip: "legacy" or "package"
    regs,      \* the chip's register file, address -> byte
    op,        \* the last operation: [name, value]
    ret,       \* what the last operation returned
    wrote,     \* the last driver write whose effect no later event disturbed
    alarmSeen, \* history of the alarm status flag: "unknown", "cleared", "set"
    steps,     \* number of operations so far
    pending,   \* per caller: the read-modify-write it is in the middle of
    interleaved \* whether two read-modify-writes of one register have overlapped

vars == <<variant, regs, op, ret, wrote, alarmSeen, steps, pending, interleaved>>

\* Registers 0x00..0x13 of the chip (section 6 register map).
Addrs == 0 .. 19
Byte == 0 .. 255

\* Python's None for an optional value is the empty set, a present value v is {v}.
None == {}
Some(v) == {v}

(***************************************************************************)
(* Bit arithmetic on Python integers (two's complement, unbounded).        *)
(***************************************************************************)
Bit(x, i) == (x \div (2 ^ i)) % 2

\* x & m on the low 8 bits (m is a byte mask).
BitAnd(x, m) ==
    Bit(x, 0) * Bit(m, 0) + 2 * Bit(x, 1) * Bit(m, 1)
    + 4 * Bit(x, 2) * Bit(m, 2) + 8 * Bit(x, 3) * Bit(m, 3)
    + 16 * Bit(x, 4) * Bit(m, 4) + 32 * Bit(x, 5) * Bit(m, 5)
    + 64 * Bit(x, 6) * Bit(m, 6) + 128 * Bit(x, 7) * Bit(m, 7)

\* x | m and x & ~m for a byte x and a byte mask m.
BitOr(x, m) == x + m - BitAnd(x, m)
BitClear(x, m) == x - BitAnd(x, m)

(***************************************************************************)
(* BCD codec: src/adafruit_pcf8523.py lines 134-153.                       *)
(***************************************************************************)
\* Mutant: the tens digit taken off whole instead of scaled by 6.
bcd2bin_tens10(value) == value - 10 * (value \div 16)
_bcd2bin(value) == value - 6 * (value \div 16)

_bin2bcd(value) == value + 6 * (value \div 10)

(***************************************************************************)
(* Bus primitives of the legacy driver: _BaseRTC._register.                *)
(***************************************************************************)
\* _register(register): readfrom_mem(address, register, 1)[0]
_register(r, register) == r[register]

\* _register(register, buffer): writeto_mem writes the buffer from `register` on.
_register_write(r, register, buffer) ==
    [a \in Addrs |->
        IF a >= register /\ a < register + Len(buffer)
        THEN buffer[a - register + 1]
        ELSE r[a]]

\* readfrom_mem_into(address, register, buffer) with a buffer of n bytes.
readfrom_mem_into(r, register, n) == [i \in 1 .. n |-> r[register + i - 1]]

\* A bytearray element accepts 0..255 only (ValueError otherwise).
FitsBytearray(buffer) == \A i \in 1 .. Len(buffer) : buffer[i] \in Byte

(***************************************************************************)
(* _BaseRTC._flag: src/adafruit_pcf8523.py lines 225-247.                  *)
(***************************************************************************)
\* value is None: bool(data & mask)
_flag_get(r, register, mask) == BitAnd(_register(r, register), mask) # 0

\* Mutant: clearing with the mask instead of its complement.
flag_data_clear_keeps_mask(data, mask, value) ==
    IF value THEN BitOr(data, mask) ELSE BitAnd(data, mask)
\* data |= mask, or data &= ~mask
flag_data(data, mask, value) ==
    IF value THEN BitOr(data, mask) ELSE BitClear(data, mask)

\* Mutant: the register not read before it is written.
flag_set_no_read(r, register, mask, value) ==
    _register_write(r, register, <<flag_data(0, mask, value)>>)
\* value given: read the register, change the masked bits, write it back
_flag_set(r, register, mask, value) ==
    _register_write(r, register, <<flag_data(_register(r, register), mask, value)>>)

\* Register addresses of the legacy PCF8523 class.
_CONTROL1_REGISTER == 0
_CONTROL2_REGISTER == 1
_CONTROL3_REGISTER == 2
_DATETIME_REGISTER == 3
_ALARM_REGISTER == 10

(***************************************************************************)
(* Datetime codec of PCF8523.datetime: src/adafruit_pcf8523.py 302-325.    *)
(***************************************************************************)
\* datetime_tuple(*datetime): the record written, millisecond kept by the caller.
datetime_tuple(year, month, day, weekday, hour, minute, second, millisecond) ==
    [year |-> year, month |-> month, day |-> day, weekday |-> weekday,
     hour |-> hour, minute |-> minute, second |-> second,
     millisecond |-> millisecond]

\* Mutant: the status and reserved bits of second and day not masked off.
datetime_decode_no_mask(buffer) ==
    datetime_tuple(_bcd2bin(buffer[7]) + 2000, _bcd2bin(buffer[6]),
                   _bcd2bin(buffer[4]), _bcd2bin(buffer[5]),
                   _bcd2bin(buffer[3]), _bcd2bin(buffer[2]),
                   _bcd2bin(buffer[1]), 0)
\* lines 307-315: buffer[0] is second ... buffer[6] is year (1-based here).
datetime_decode(buffer) ==
    datetime_tuple(_bcd2bin(buffer[7]) + 2000, _bcd2bin(buffer[6]),
                   _bcd2bin(BitAnd(buffer[4], 63)), _bcd2bin(buffer[5]),
                   _bcd2bin(buffer[3]), _bcd2bin(buffer[2]),
                   _bcd2bin(BitAnd(buffer[1], 127)), 0)

\* Mutant: weekday written before day.
datetime_encode_weekday_first(datetime) ==
    << _bin2bcd(datetime.second % 128),
       _bin2bcd(datetime.minute),
       _bin2bcd(datetime.hour),
       _bin2bcd(datetime.weekday),
       _bin2bcd(datetime.day % 64),
       _bin2bcd(datetime.month),
       _bin2bcd(datetime.year - 2000) >>
\* lines 318-324.
datetime_encode(datetime) ==
    << _bin2bcd(datetime.second % 128),
       _bin2bcd(datetime.minute),
       _bin2bcd(datetime.hour),
       _bin2bcd(datetime.day % 64),
       _bin2bcd(datetime.weekday),
       _bin2bcd(datetime.month),
       _bin2bcd(datetime.year - 2000) >>

(***************************************************************************)
(* Alarm codec of PCF8523.alarm_time: src/adafruit_pcf8523.py 338-371.     *)
(***************************************************************************)
alarm_tuple(weekday, day, hour, minute) ==
    [weekday |-> weekday, day |-> day, hour |-> hour, minute |-> minute]

\* _bcd2bin(b & 0x7f) if not (b & 0x80) else None
\* Mutant below: the disable bit not looked at.
alarm_field_sentinel_dropped(b) == Some(_bcd2bin(BitAnd(b, 127)))
alarm_field(b) ==
    IF BitAnd(b, 128) = 0 THEN Some(_bcd2bin(BitAnd(b, 127))) ELSE None

alarm_time_decode(buffer) ==
    alarm_tuple(alarm_field(buffer[4]), alarm_field(buffer[3]),
                alarm_field(buffer[2]), alarm_field(buffer[1]))

\* _bin2bcd(v) if v is not None else 0x80
\* Mutant below: an absent field written as 0.
alarm_byte_absent_zero(f) == IF f = None THEN 0 ELSE _bin2bcd(CHOOSE v \in f : TRUE)
alarm_byte(f) == IF f = None THEN 128 ELSE _bin2bcd(CHOOSE v \in f : TRUE)

alarm_time_encode(alarmTime) ==
    << alarm_byte(alarmTime.minute), alarm_byte(alarmTime.hour),
       alarm_byte(alarmTime.day), alarm_byte(alarmTime.weekday) >>

(***************************************************************************)
(* Bit-field register accessor (specification section 4.2).  The package   *)
(* driver declares its flags and fields as adafruit_register descriptors;  *)
(* the descriptor classes themselves are outside the sources.              *)
(***************************************************************************)
\* BitField descriptor {register address, bit offset, width, signed}.
RWBits(num_bits, register_address, lowest_bit, signed) ==
    [num_bits |-> num_bits, register_address |-> register_address,
     lowest_bit |-> lowest_bit, signed |-> signed]

\* Single-bit flag descriptor: register and bit mask.
RWBit(register_address, bit) ==
    [register_address |-> register_address, bit_mask |-> 2 ^ bit]

bit_mask(d) == (2 ^ d.num_bits - 1) * (2 ^ d.lowest_bit)

\* readField: shift right by offset, mask to width, sign-extend if signed.
readField(r, d) ==
    LET f == (r[d.register_address] \div (2 ^ d.lowest_bit)) % (2 ^ d.num_bits)
    IN  IF d.signed /\ f >= 2 ^ (d.num_bits - 1) THEN f - 2 ^ d.num_bits ELSE f

\* writeField: clear the field's bits, OR in the value masked to width bits
\* (a negative value as width-bit two's complement), write the byte back.
writeField(r, d, value) ==
    [r EXCEPT ![d.register_address] =
        BitClear(@, bit_mask(d)) + (value % (2 ^ d.num_bits)) * (2 ^ d.lowest_bit)]

\* readFlag / writeFlag: AND with the mask; set or clear exactly the masked bits.
readFlag(r, d) == BitAnd(r[d.register_address], d.bit_mask) # 0

writeFlag(r, d, value) ==
    [r EXCEPT ![d.register_address] =
        IF value THEN BitOr(@, d.bit_mask) ELSE BitClear(@, d.bit_mask)]

(***************************************************************************)
(* Descriptors of the package driver.                                      *)
(***************************************************************************)
STANDARD_BATTERY_SWITCHOVER_AND_DETECTION == 0
BATTERY_SWITCHOVER_OFF == 7

\* src/adafruit_pcf8523/pcf8523.py
lost_power == RWBit(3, 7)
power_management == RWBits(3, 2, 5, FALSE)
alarm_interrupt == RWBit(0, 1)
alarm_status == RWBit(1, 3)
battery_low == RWBit(2, 2)
high_capacitance == RWBit(0, 7)
calibration_schedule_per_minute == RWBit(14, 7)
\* Mutant of calibration: declared unsigned.
calibration_unsigned == RWBits(7, 14, 0, FALSE)
calibration == RWBits(7, 14, 0, TRUE)
datetime_register == 3

\* src/adafruit_pcf8523/clock.py
\* Mutant: declared 2 bits wide.
clockout_frequency_2bits == RWBits(2, 15, 3, FALSE)
clockout_frequency == RWBits(3, 15, 3, FALSE)

\* src/adafruit_pcf8523/timer.py
\* Mutant: declared 3 bits wide, reaching into the clock-out frequency.
timer_enabled_3bits == RWBits(3, 15, 1, FALSE)
timer_enabled == RWBits(2, 15, 1, FALSE)
timer_frequency == RWBits(3, 16, 0, FALSE)
timer_value == RWBits(8, 17, 0, FALSE)
timer_interrupt == RWBit(1, 1)
timer_watchdog == RWBit(1, 2)
\* Mutant: declared on bit 3, the alarm status bit.
timer_status_bit3 == RWBit(1, 3)
timer_status == RWBit(1, 6)
timer_pulsed == RWBit(15, 7)
timerB_enabled == RWBit(15, 0)
timerB_frequency == RWBits(3, 18, 0, FALSE)
timerB_value == RWBits(8, 19, 0, FALSE)
timerB_interrupt == RWBit(1, 0)
timerB_status == RWBit(1, 5)
timerB_pulsed == RWBit(15, 6)

\* The multi-bit fields and the single-bit flags by attribute name.
Fields ==
    [power_management |-> power_management, calibration |-> calibration,
     clockout_frequency |-> clockout_frequency, timer_enabled |-> timer_enabled,
     timer_frequency |-> timer_frequency, timer_value |-> timer_value,
     timerB_frequency |-> timerB_frequency, timerB_value |-> timerB_value]

Flags ==
    [lost_power |-> lost_power, alarm_interrupt |-> alarm_interrupt,
     alarm_status |-> alarm_status, battery_low |-> battery_low,
     high_capacitance |-> high_capacitance,
     calibration_schedule_per_minute |-> calibration_schedule_per_minute,
     timer_interrupt |-> timer_interrupt, timer_watchdog |-> timer_watchdog,
     timer_status |-> timer_status, timer_pulsed |-> timer_pulsed,
     timerB_enabled |-> timerB_enabled, timerB_interrupt |-> timerB_interrupt,
     timerB_status |-> timerB_status, timerB_pulsed |-> timerB_pulsed]

\* battery_low is an ROBit: it has no setter.
ReadOnlyFlags == {"battery_low"}

\* Attributes of the PCF8523 facade alone (without Timer and Clock).
RtcFields == {"power_management", "calibration"}
RtcFlags == {"lost_power", "alarm_interrupt", "alarm_status", "battery_low",
             "high_capacitance", "calibration_schedule_per_minute"}

(***************************************************************************)
(* DateTime register codec of the package driver (section 4.3):            *)
(* BCDDateTimeRegister(0x03, False, 0).                                    *)
(***************************************************************************)
DateTimeCodec_decode(buffer) ==
    datetime_tuple(_bcd2bin(buffer[7]) + 2000, _bcd2bin(buffer[6]),
                   _bcd2bin(BitAnd(buffer[4], 63)), _bcd2bin(buffer[5]),
                   _bcd2bin(buffer[3]), _bcd2bin(buffer[2]),
                   _bcd2bin(BitAnd(buffer[1], 127)), 0)

DateTimeCodec_encode(t) ==
    << _bin2bcd(t.second % 128), _bin2bcd(t.minute), _bin2bcd(t.hour),
       _bin2bcd(t.day % 64), _bin2bcd(t.weekday), _bin2bcd(t.month),
       _bin2bcd(t.year - 2000) >>

(***************************************************************************)
(* Alarm register codec of the package driver (section 4.4):               *)
(* BCDAlarmTimeRegister(0x0A, has_seconds=False, weekday_shared=False,     *)
(* weekday_start=0).                                                       *)
(***************************************************************************)
alarm_register == 10

AlarmCodec_decode(buffer) ==
    alarm_tuple(alarm_field(buffer[4]), alarm_field(buffer[3]),
                alarm_field(buffer[2]), alarm_field(buffer[1]))

AlarmCodec_encode(a) ==
    << alarm_byte(a.minute), alarm_byte(a.hour),
       alarm_byte(a.day), alarm_byte(a.weekday) >>

(***************************************************************************)
(* Flag methods of the legacy PCF8523 class: each is _flag on a fixed      *)
(* register and mask (src/adafruit_pcf8523.py lines 386-428).              *)
(***************************************************************************)
PCF8523_lost_power == [register |-> _CONTROL3_REGISTER, mask |-> 8]
PCF8523_stop == [register |-> _CONTROL1_REGISTER, mask |-> 16]
PCF8523_battery_low == [register |-> _CONTROL3_REGISTER, mask |-> 4]
PCF8523_alarm == [register |-> _CONTROL2_REGISTER, mask |-> 8]

LegacyFlags ==
    [lost_power |-> PCF8523_lost_power, stop |-> PCF8523_stop,
     battery_low |-> PCF8523_battery_low, alarm |-> PCF8523_alarm]

\* battery_low() takes no value.
LegacyWritable == {"lost_power", "stop", "alarm"}

\* reset() begins with _flag(_CONTROL1_REGISTER, 0x58, True).
PCF8523_reset_flag == [register |-> _CONTROL1_REGISTER, mask |-> 88]

\* init(): battery switchover and low-battery detection on, BSIE set.
PCF8523_init(r) ==
    _flag_set(_flag_set(r, _CONTROL3_REGISTER, 224, FALSE),
              _CONTROL3_REGISTER, 2, TRUE)

(***************************************************************************)
(* Operations.  Every operation records itself in op and its result in     *)
(* ret; a setter returns None, a failed one the error it raised.           *)
(***************************************************************************)
MaxOps == 3

Ok(x) == [error |-> "none", value |-> x]
Err(e) == [error |-> e, value |-> None]

\* Names under which driver writes are remembered.
Targets ==
    (DOMAIN Fields) \cup (DOMAIN Flags) \cup (DOMAIN LegacyFlags)
    \cup {"datetime", "alarm_time", "reset"}

\* The callers of the driver, and a caller that is not inside a
\* read-modify-write.
Threads == {1, 2}
Idle == [target |-> "none", value |-> None, data |-> 0]
\* The caller whose multi-step operations are followed; what any other
\* caller does appears as further operations in between.
SingleOwner == {1}
NoneInFlight == pending = [t \in Threads |-> Idle] /\ interleaved = FALSE

Finish(name, target, value, r, result) ==
    /\ steps < MaxOps
    /\ steps' = steps + 1
    /\ variant' = variant
    /\ op' = [name |-> name, target |-> target, value |-> value]
    /\ regs' = r
    /\ ret' = result
    /\ UNCHANGED <<pending, interleaved>>

\* ---- legacy driver -------------------------------------------------------
PCF8523_datetime_read ==
    /\ variant = "legacy"
    /\ Finish("get", "datetime", None, regs,
              Ok(datetime_decode(readfrom_mem_into(regs, _DATETIME_REGISTER, 7))))
    /\ UNCHANGED <<wrote, alarmSeen>>

PCF8523_datetime_write(datetime) ==
    LET buffer == datetime_encode(datetime) IN
    /\ variant = "legacy"
    /\ IF FitsBytearray(buffer)
       THEN /\ Finish("set", "datetime", Some(datetime),
                      _register_write(regs, _DATETIME_REGISTER, buffer), Ok(None))
            /\ wrote' = [wrote EXCEPT !["datetime"] = Some(datetime)]
       ELSE /\ Finish("set", "datetime", Some(datetime), regs, Err("ValueError"))
            /\ UNCHANGED wrote
    /\ UNCHANGED alarmSeen

PCF8523_alarm_time_read ==
    /\ variant = "legacy"
    /\ Finish("get", "alarm_time", None, regs,
              Ok(alarm_time_decode(readfrom_mem_into(regs, _ALARM_REGISTER, 4))))
    /\ UNCHANGED <<wrote, alarmSeen>>

\* Writes the four alarm bytes, then sets the alarm interrupt enable bit.
PCF8523_alarm_time_write(alarmTime) ==
    LET buffer == alarm_time_encode(alarmTime) IN
    /\ variant = "legacy"
    /\ IF FitsBytearray(buffer)
       THEN /\ Finish("set", "alarm_time", Some(alarmTime),
                      _flag_set(_register_write(regs, _ALARM_REGISTER, buffer),
                                _CONTROL1_REGISTER, 2, TRUE),
                      Ok(None))
            /\ wrote' = [wrote EXCEPT !["alarm_time"] = Some(alarmTime)]
       ELSE /\ Finish("set", "alarm_time", Some(alarmTime), regs, Err("ValueError"))
            /\ UNCHANGED wrote
    /\ UNCHANGED alarmSeen

PCF8523_flag_read(n) ==
    /\ variant = "legacy"
    /\ Finish("get", n, None, regs,
              Ok(_flag_get(regs, LegacyFlags[n].register, LegacyFlags[n].mask)))
    /\ UNCHANGED <<wrote, alarmSeen>>

PCF8523_flag_write(n, value) ==
    /\ variant = "legacy"
    /\ Finish("set", n, Some(value),
              _flag_set(regs, LegacyFlags[n].register, LegacyFlags[n].mask, value),
              Ok(None))
    /\ wrote' = [wrote EXCEPT ![n] = Some(value)]
    /\ alarmSeen' = IF n = "alarm"
                    THEN (IF value THEN "set" ELSE "cleared")
                    ELSE alarmSeen

\* init() called again by the user: the two _flag calls on register 0x02.
PCF8523_init_call ==
    /\ variant = "legacy"
    /\ Finish("init", "init", None, PCF8523_init(regs), Ok(None))
    /\ UNCHANGED <<wrote, alarmSeen>>

\* reset(): sets bits 0x58 of register 0x00 (the stop bit among them), then
\* init().
PCF8523_reset ==
    /\ variant = "legacy"
    /\ Finish("reset", "reset", None,
              PCF8523_init(_flag_set(regs, PCF8523_reset_flag.register,
                                     PCF8523_reset_flag.mask, TRUE)),
              Ok(None))
    /\ wrote' = [wrote EXCEPT !["reset"] = Some(TRUE), !["stop"] = None]
    /\ UNCHANGED alarmSeen

\* ---- package driver ------------------------------------------------------
\* The datetime_register attribute read and assigned directly.
datetime_register_get ==
    /\ variant = "package"
    /\ Finish("get", "datetime_register", None, regs,
              Ok(DateTimeCodec_decode(readfrom_mem_into(regs, datetime_register, 7))))
    /\ UNCHANGED <<wrote, alarmSeen>>

datetime_register_set(value) ==
    /\ variant = "package"
    /\ Finish("set", "datetime_register", Some(value),
              _register_write(regs, datetime_register, DateTimeCodec_encode(value)),
              Ok(None))
    /\ wrote' = [wrote EXCEPT !["datetime"] = Some(value), !["lost_power"] = None]
    /\ UNCHANGED alarmSeen

\* The alarm attribute: the four-byte block at 0x0A.
alarm_get ==
    /\ variant = "package"
    /\ Finish("get", "alarm_time", None, regs,
              Ok(AlarmCodec_decode(readfrom_mem_into(regs, alarm_register, 4))))
    /\ UNCHANGED <<wrote, alarmSeen>>

alarm_set(value) ==
    /\ variant = "package"
    /\ Finish("set", "alarm_time", Some(value),
              _register_write(regs, alarm_register, AlarmCodec_encode(value)),
              Ok(None))
    /\ wrote' = [wrote EXCEPT !["alarm_time"] = Some(value)]
    /\ UNCHANGED alarmSeen

datetime_getter ==
    /\ variant = "package"
    /\ Finish("get", "datetime", None, regs,
              Ok(DateTimeCodec_decode(readfrom_mem_into(regs, datetime_register, 7))))
    /\ UNCHANGED <<wrote, alarmSeen>>

\* The datetime setter is two descriptor accesses, each a bus transaction of
\* its own; between them the bus is free and another caller's access may
\* fall.  The caller is inside the setter from the first to the second.
\* Either access may raise the bus's OSError, which ends the setter there.
\* self.power_management = STANDARD_BATTERY_SWITCHOVER_AND_DETECTION
datetime_setter_power_management(t, value) ==
    /\ variant = "package"
    /\ steps < MaxOps
    /\ pending[t].target = "none"
    /\ steps' = steps + 1
    /\ regs' = writeField(regs, power_management,
                          STANDARD_BATTERY_SWITCHOVER_AND_DETECTION)
    /\ pending' = [pending EXCEPT ![t] =
                      [target |-> "datetime", value |-> Some(value), data |-> 0]]
    /\ wrote' = [wrote EXCEPT !["power_management"] =
                                 Some(STANDARD_BATTERY_SWITCHOVER_AND_DETECTION)]
    /\ op' = [name |-> "begin", target |-> "datetime", value |-> Some(value)]
    /\ ret' = Ok(None)
    /\ UNCHANGED <<variant, alarmSeen, interleaved>>

\* self.datetime_register = value; the setter returns.
datetime_setter_datetime_register(t) ==
    /\ variant = "package"
    /\ pending[t].target = "datetime"
    /\ regs' = _register_write(regs, datetime_register,
                               DateTimeCodec_encode(CHOOSE v \in pending[t].value : TRUE))
    /\ pending' = [pending EXCEPT ![t] = Idle]
    /\ wrote' = [wrote EXCEPT !["datetime"] = pending[t].value,
                              !["lost_power"] = None]
    /\ op' = [name |-> "set", target |-> "datetime", value |-> pending[t].value]
    /\ ret' = Ok(None)
    /\ UNCHANGED <<variant, alarmSeen, steps, interleaved>>

\* The first access raises: its read failed (nothing written), or its write
\* failed with the byte stored or not.  The setter ends with the error and
\* the datetime block is not written.
datetime_setter_power_management_raises(t, value) ==
    /\ variant = "package"
    /\ steps < MaxOps
    /\ pending[t].target = "none"
    /\ steps' = steps + 1
    /\ regs' \in {regs, writeField(regs, power_management,
                                   STANDARD_BATTERY_SWITCHOVER_AND_DETECTION)}
    /\ wrote' = [wrote EXCEPT !["power_management"] = None]
    /\ op' = [name |-> "set", target |-> "datetime", value |-> Some(value)]
    /\ ret' = Err("OSError")
    /\ UNCHANGED <<variant, alarmSeen, pending, interleaved>>

\* The second access raises: the block write failed after any number of its
\* bytes were stored.  The setter ends with the error.
datetime_setter_datetime_register_raises(t) ==
    LET buffer == DateTimeCodec_encode(CHOOSE v \in pending[t].value : TRUE) IN
    /\ variant = "package"
    /\ pending[t].target = "datetime"
    /\ \E k \in 0 .. Len(buffer) :
          regs' = _register_write(regs, datetime_register, SubSeq(buffer, 1, k))
    /\ pending' = [pending EXCEPT ![t] = Idle]
    /\ wrote' = [wrote EXCEPT !["datetime"] = None, !["lost_power"] = None]
    /\ op' = [name |-> "set", target |-> "datetime", value |-> pending[t].value]
    /\ ret' = Err("OSError")
    /\ UNCHANGED <<variant, alarmSeen, steps, interleaved>>

Flag_get(n) ==
    /\ variant = "package"
    /\ Finish("get", n, None, regs, Ok(readFlag(regs, Flags[n])))
    /\ UNCHANGED <<wrote, alarmSeen>>

Flag_set(n, value) ==
    /\ variant = "package"
    /\ n \notin ReadOnlyFlags
    /\ Finish("set", n, Some(value), writeFlag(regs, Flags[n], value), Ok(None))
    /\ wrote' = [wrote EXCEPT ![n] = Some(value)]
    /\ alarmSeen' = IF n = "alarm_status"
                    THEN (IF value THEN "set" ELSE "cleared")
                    ELSE alarmSeen

Field_get(n) ==
    /\ variant = "package"
    /\ Finish("get", n, None, regs, Ok(readField(regs, Fields[n])))
    /\ UNCHANGED <<wrote, alarmSeen>>

Field_set(n, value) ==
    /\ variant = "package"
    /\ Finish("set", n, Some(value), writeField(regs, Fields[n], value), Ok(None))
    /\ wrote' = [wrote EXCEPT ![n] = Some(value)]
    /\ UNCHANGED alarmSeen

\* ---- the chip ------------------------------------------------------------
\* The alarm fires: the chip sets the alarm status flag, register 0x01 bit 3.
HwAlarm ==
    /\ Finish("hw", "alarm", None, [regs EXCEPT ![1] = BitOr(@, 8)], Ok(None))
    /\ wrote' = [wrote EXCEPT !["alarm"] = None, !["alarm_status"] = None]
    /\ alarmSeen' = "set"

\* Power is lost: the chip sets the lost-power bit where the variant reads it.
HwPowerLoss ==
    /\ Finish("hw", "lost_power", None,
              IF variant = "legacy"
              THEN [regs EXCEPT ![2] = BitOr(@, 8)]
              ELSE [regs EXCEPT ![3] = BitOr(@, 128)],
              Ok(None))
    /\ wrote' = [wrote EXCEPT !["lost_power"] = None]
    /\ UNCHANGED alarmSeen

(***************************************************************************)
(* The device: either driver on a chip whose registers hold anything at    *)
(* construction; the legacy constructor runs init().                       *)
(***************************************************************************)
Construct(v, r) == IF v = "legacy" THEN PCF8523_init(r) ELSE r

InitWith(bytes) ==
    /\ variant \in {"legacy", "package"}
    /\ \E b \in bytes : regs = Construct(variant, [a \in Addrs |-> b])
    /\ op = [name |-> "init", target |-> "none", value |-> None]
    /\ ret = Ok(None)
    /\ wrote = [n \in Targets |-> None]
    /\ alarmSeen = "unknown"
    /\ steps = 0
    /\ NoneInFlight

DateTime2017 == datetime_tuple(2017, 10, 29, 0, 10, 31, 0, 0)
DateTime2099 == datetime_tuple(2099, 12, 31, 6, 23, 59, 59, 0)
SmallTimes == {DateTime2017, DateTime2099}
SmallAlarms == {alarm_tuple(None, None, None, None),
                alarm_tuple(None, None, Some(7), Some(30))}
SmallFieldValues ==
    [power_management |->
        {STANDARD_BATTERY_SWITCHOVER_AND_DETECTION, BATTERY_SWITCHOVER_OFF},
     calibration |-> {-64, 63}]

Init == InitWith({0, 255})

Next ==
    \/ PCF8523_datetime_read
    \/ \E t \in SmallTimes : PCF8523_datetime_write(t)
    \/ PCF8523_alarm_time_read
    \/ \E a \in SmallAlarms : PCF8523_alarm_time_write(a)
    \/ \E n \in DOMAIN LegacyFlags : PCF8523_flag_read(n)
    \/ \E n \in LegacyWritable, v \in BOOLEAN : PCF8523_flag_write(n, v)
    \/ PCF8523_init_call
    \/ PCF8523_reset
    \/ datetime_getter
    \/ \E c \in SingleOwner, t \in SmallTimes : datetime_setter_power_management(c, t)
    \/ \E c \in SingleOwner : datetime_setter_datetime_register(c)
    \/ \E c \in SingleOwner, t \in SmallTimes :
          datetime_setter_power_management_raises(c, t)
    \/ \E c \in SingleOwner : datetime_setter_datetime_register_raises(c)
    \/ datetime_register_get
    \/ \E t \in SmallTimes : datetime_register_set(t)
    \/ alarm_get
    \/ \E a \in SmallAlarms : alarm_set(a)
    \/ \E n \in RtcFlags : Flag_get(n)
    \/ \E n \in RtcFlags, v \in BOOLEAN : Flag_set(n, v)
    \/ \E n \in RtcFields : Field_get(n)
    \/ \E n \in RtcFields : \E v \in SmallFieldValues[n] : Field_set(n, v)
    \/ HwAlarm
    \/ HwPowerLoss

Spec == Init /\ [][Next]_vars

(***************************************************************************)
(* BCD codec alone: an input n, _bin2bcd of it, _bcd2bin of the result.    *)
(***************************************************************************)
BcdInputs == 0 .. 99

InitBCD ==
    /\ variant = "legacy"
    /\ regs = Construct(variant, [a \in Addrs |-> 0])
    /\ \E n \in BcdInputs : op = [name |-> "input", target |-> "bcd", value |-> Some(n)]
    /\ ret = Ok(None)
    /\ wrote = [n \in Targets |-> None]
    /\ alarmSeen = "unknown"
    /\ steps = 0
    /\ NoneInFlight

BcdEncode ==
    /\ op.name = "input"
    /\ Finish("_bin2bcd", "bcd", op.value, regs,
              Ok(_bin2bcd(CHOOSE n \in op.value : TRUE)))
    /\ UNCHANGED <<wrote, alarmSeen>>

BcdDecode ==
    /\ op.name = "_bin2bcd"
    /\ Finish("_bcd2bin", "bcd", op.value, regs,
              Ok([bcd |-> ret.value, bin |-> _bcd2bin(ret.value)]))
    /\ UNCHANGED <<wrote, alarmSeen>>

NextBCD == BcdEncode \/ BcdDecode

SpecBCD == InitBCD /\ [][NextBCD]_vars

(***************************************************************************)
(* Datetime codec.  For decoding, the datetime block holds any BCD bytes   *)
(* at construction, with the ignored top bits of the second and day bytes  *)
(* set or clear; for the round trip, the clock is written with timestamps  *)
(* over the whole supported range.                                         *)
(***************************************************************************)
\* [0x00, 0x31, 0x10, 0x29, 0x00, 0x10, 0x17]
ExampleBlock == <<0, 49, 16, 41, 0, 16, 23>>

\* Highest tens digit a byte of the block can hold beside its ignored bits.
MaxTens == [i \in 1 .. 7 |-> IF i = 1 THEN 7 ELSE IF i = 4 THEN 3 ELSE 9]

\* The example block with one byte replaced by any BCD byte, and the
\* ignored bits (bit 7 of byte 0, bits 7-6 of byte 3) set to anything.
RawBlocks ==
    { [i \in 1 .. 7 |->
          (IF i = k THEN 16 * (h % (MaxTens[i] + 1)) + l ELSE ExampleBlock[i])
          + (IF i = 1 THEN 128 * t0 ELSE IF i = 4 THEN 64 * t3 ELSE 0)] :
      k \in 1 .. 7, h \in 0 .. 9, l \in 0 .. 9, t0 \in 0 .. 1, t3 \in 0 .. 3 }

InitDecode ==
    /\ variant \in {"legacy", "package"}
    /\ \E block \in RawBlocks :
          regs = Construct(variant,
                 [a \in Addrs |-> IF a \in 3 .. 9 THEN block[a - 2] ELSE 0])
    /\ op = [name |-> "init", target |-> "none", value |-> None]
    /\ ret = Ok(None)
    /\ wrote = [n \in Targets |-> None]
    /\ alarmSeen = "unknown"
    /\ steps = 0
    /\ NoneInFlight

\* Reading the clock, with the chip raising the lost-power bit in between.
NextDecode ==
    \/ PCF8523_datetime_read
    \/ datetime_getter
    \/ HwPowerLoss

SpecDecode == InitDecode /\ [][NextDecode]_vars

BaseTimes ==
    {DateTime2017, DateTime2099, datetime_tuple(2000, 1, 1, 0, 0, 0, 0, 500)}

\* Every supported value of every field, the other fields from a base time.
WideTimes ==
    UNION { {[b EXCEPT !.year = v] : v \in 2000 .. 2099}
            \cup {[b EXCEPT !.month = v] : v \in 1 .. 12}
            \cup {[b EXCEPT !.day = v] : v \in 1 .. 31}
            \cup {[b EXCEPT !.weekday = v] : v \in 0 .. 6}
            \cup {[b EXCEPT !.hour = v] : v \in 0 .. 23}
            \cup {[b EXCEPT !.minute = v] : v \in 0 .. 59}
            \cup {[b EXCEPT !.second = v] : v \in 0 .. 59} : b \in BaseTimes }

\* One write of the clock, then reads; the chip may raise the lost-power bit.
InitDateTime == InitWith({0, 255})

NextDateTime ==
    \/ PCF8523_datetime_read
    \/ \E t \in WideTimes : steps = 0 /\ PCF8523_datetime_write(t)
    \/ datetime_getter
    \/ \E c \in SingleOwner, t \in WideTimes :
          steps = 0 /\ datetime_setter_power_management(c, t)
    \/ \E c \in SingleOwner : datetime_setter_datetime_register(c)
    \/ HwPowerLoss

SpecDateTime == InitDateTime /\ [][NextDateTime]_vars

\* Any second and any day a caller may pass in a byte, valid or not.
ByteTimes ==
    {[DateTime2017 EXCEPT !.second = v] : v \in Byte}
    \cup {[DateTime2017 EXCEPT !.day = v] : v \in Byte}

InitEncode == InitWith({0, 255})

\* One write of the clock with any second or day, then reads.
NextEncode ==
    \/ PCF8523_datetime_read
    \/ \E t \in ByteTimes : steps = 0 /\ PCF8523_datetime_write(t)
    \/ datetime_getter
    \/ \E c \in SingleOwner, t \in ByteTimes :
          steps = 0 /\ datetime_setter_power_management(c, t)
    \/ \E c \in SingleOwner : datetime_setter_datetime_register(c)

SpecEncode == InitEncode /\ [][NextEncode]_vars

(***************************************************************************)
(* Alarm codec of the legacy driver: every presence combination of the     *)
(* four fields, every value of every field.                                *)
(***************************************************************************)
BaseAlarms == {alarm_tuple(Some(0), Some(1), Some(0), Some(0)),
               alarm_tuple(Some(6), Some(31), Some(23), Some(59))}

Opt(S) == {None} \cup {Some(v) : v \in S}

WideAlarms ==
    UNION { {[b EXCEPT !.minute = v] : v \in Opt(0 .. 59)}
            \cup {[b EXCEPT !.hour = v] : v \in Opt(0 .. 23)}
            \cup {[b EXCEPT !.day = v] : v \in Opt(1 .. 31)}
            \cup {[b EXCEPT !.weekday = v] : v \in Opt(0 .. 6)} :
            b \in { alarm_tuple(IF "w" \in p THEN a.weekday ELSE None,
                                IF "d" \in p THEN a.day ELSE None,
                                IF "h" \in p THEN a.hour ELSE None,
                                IF "m" \in p THEN a.minute ELSE None) :
                    a \in BaseAlarms, p \in SUBSET {"w", "d", "h", "m"} } }

InitAlarm ==
    /\ variant = "legacy"
    /\ \E b \in {0, 128, 255} : regs = Construct(variant, [a \in Addrs |-> b])
    /\ op = [name |-> "init", target |-> "none", value |-> None]
    /\ ret = Ok(None)
    /\ wrote = [n \in Targets |-> None]
    /\ alarmSeen = "unknown"
    /\ steps = 0
    /\ NoneInFlight

NextAlarm ==
    \/ PCF8523_alarm_time_read
    \/ \E a \in WideAlarms : steps = 0 /\ PCF8523_alarm_time_write(a)

SpecAlarm == InitAlarm /\ [][NextAlarm]_vars

\* The alarm block at 0x0A..0x0D as the chip may hold it at construction: one
\* byte anything at all, the other three all disabled or all enabled.
BaseAlarmBlocks == {<<128, 128, 128, 128>>, <<48, 7, 1, 2>>}

RawAlarmBlocks ==
    { [i \in 1 .. 4 |-> IF i = k THEN b ELSE base[i]] :
      k \in 1 .. 4, b \in Byte, base \in BaseAlarmBlocks }

InitAlarmBytes ==
    /\ variant = "legacy"
    /\ \E block \in RawAlarmBlocks :
          regs = Construct(variant,
                 [a \in Addrs |-> IF a \in 10 .. 13 THEN block[a - 9] ELSE 0])
    /\ op = [name |-> "init", target |-> "none", value |-> None]
    /\ ret = Ok(None)
    /\ wrote = [n \in Targets |-> None]
    /\ alarmSeen = "unknown"
    /\ steps = 0
    /\ NoneInFlight

\* Reads of any block; one write of the alarm, over either base block.
NextAlarmBytes ==
    \/ PCF8523_alarm_time_read
    \/ /\ steps = 0
       /\ readfrom_mem_into(regs, _ALARM_REGISTER, 4) \in BaseAlarmBlocks
       /\ \E a \in WideAlarms : PCF8523_alarm_time_write(a)

SpecAlarmBytes == InitAlarmBytes /\ [][NextAlarmBytes]_vars

(***************************************************************************)
(* Flag and field accessors on any prior register content: one write,      *)
(* then reads of the accessors of the register written.                    *)
(***************************************************************************)
FieldInputs ==
    [power_management |-> 0 .. 7, calibration |-> -64 .. 127,
     clockout_frequency |-> 0 .. 7, timer_enabled |-> 0 .. 3,
     timer_frequency |-> 0 .. 7, timer_value |-> 0 .. 255,
     timerB_frequency |-> 0 .. 7, timerB_value |-> 0 .. 255]

TargetRegister(n) ==
    IF variant = "legacy" THEN LegacyFlags[n].register
    ELSE IF n \in DOMAIN Fields THEN Fields[n].register_address
    ELSE Flags[n].register_address

ReadBack(n) == op.name # "init" /\ TargetRegister(op.target) = TargetRegister(n)

\* Prior register contents: all clear, all set, and every single bit set
\* among clear ones and clear among set ones.
PriorBytes ==
    {0, 255} \cup {2 ^ i : i \in 0 .. 7} \cup {255 - 2 ^ i : i \in 0 .. 7}

InitField == InitWith(PriorBytes)

NextField ==
    \/ \E n \in LegacyWritable, v \in BOOLEAN : steps = 0 /\ PCF8523_flag_write(n, v)
    \/ \E n \in DOMAIN LegacyFlags :
          variant = "legacy" /\ ReadBack(n) /\ PCF8523_flag_read(n)
    \/ \E n \in DOMAIN Flags, v \in BOOLEAN : steps = 0 /\ Flag_set(n, v)
    \/ \E n \in DOMAIN Flags : variant = "package" /\ ReadBack(n) /\ Flag_get(n)
    \/ \E n \in DOMAIN Fields : \E v \in FieldInputs[n] : steps = 0 /\ Field_set(n, v)
    \/ \E n \in DOMAIN Fields : variant = "package" /\ ReadBack(n) /\ Field_get(n)

SpecField == InitField /\ [][NextField]_vars

(***************************************************************************)
(* The PCF8523, Timer and Clock facades on one device handle: sequences of *)
(* flag and field writes on the registers that several accessors share     *)
(* (0x00, 0x01, 0x02, 0x0E, 0x0F), each write run to completion, the chip  *)
(* changing nothing by itself.  A run stays on the register of its first   *)
(* write.                                                                  *)
(***************************************************************************)
SharedRegisters == {0, 1, 2, 14, 15}

SharedFlags ==
    {n \in DOMAIN Flags : Flags[n].register_address \in SharedRegisters}

SharedFieldValues ==
    [power_management |-> {0, 5, 7}, calibration |-> {-64, -1, 63},
     clockout_frequency |-> {0, 5, 7}, timer_enabled |-> {0, 2, 3}]

SameRegister(n) ==
    IF op.name = "init" THEN TRUE
    ELSE TargetRegister(op.target) = TargetRegister(n)

InitShared == InitWith({0, 85, 170, 255})

NextShared ==
    \/ \E n \in LegacyWritable, v \in BOOLEAN :
          variant = "legacy" /\ SameRegister(n) /\ PCF8523_flag_write(n, v)
    \/ \E n \in SharedFlags, v \in BOOLEAN :
          variant = "package" /\ SameRegister(n) /\ Flag_set(n, v)
    \/ \E n \in DOMAIN SharedFieldValues : \E v \in SharedFieldValues[n] :
          variant = "package" /\ SameRegister(n) /\ Field_set(n, v)

SpecShared == InitShared /\ [][NextShared]_vars

(***************************************************************************)
(* Two callers on one device handle.  A flag or field write is two bus     *)
(* transactions, the read of the register and the write of the changed     *)
(* byte, with nothing held in between: another caller's transactions may   *)
(* fall between them.                                                      *)
(***************************************************************************)
\* The _flag call that ends alarm_time: the alarm interrupt enable bit.
PCF8523_alarm_interrupt == [register |-> _CONTROL1_REGISTER, mask |-> 2]

\* Read-modify-writes of the legacy driver on register 0x00: stop(), the
\* _flag call that ends alarm_time and the one that begins reset().
LegacyRmwFlags ==
    [stop |-> PCF8523_stop, alarm_interrupt |-> PCF8523_alarm_interrupt,
     reset |-> PCF8523_reset_flag]

\* Accessors that share a register, and the values written to them: stop,
\* the alarm interrupt enable and reset in 0x00 (legacy; the reset bits
\* include the stop bit, the other two are disjoint); clock-out frequency
\* and timer-A enable in 0x0F, alarm status and timer-A status in 0x01.
RmwValues ==
    IF variant = "legacy"
    THEN [stop |-> BOOLEAN, alarm_interrupt |-> {TRUE}, reset |-> {TRUE}]
    ELSE [clockout_frequency |-> {0, 5, 7}, timer_enabled |-> {0, 2, 3},
          alarm_status |-> BOOLEAN, timer_status |-> BOOLEAN]

RmwRegister(n) ==
    IF variant = "legacy" THEN LegacyRmwFlags[n].register ELSE TargetRegister(n)

\* First half: data = self._register(register).
RmwRead(t, n, value) ==
    /\ steps < MaxOps
    /\ pending[t].target = "none"
    /\ steps' = steps + 1
    /\ pending' = [pending EXCEPT ![t] =
                      [target |-> n, value |-> Some(value),
                       data |-> _register(regs, RmwRegister(n))]]
    /\ interleaved' =
          (interleaved
           \/ \E u \in Threads \ {t} :
                 /\ pending[u].target # "none"
                 /\ RmwRegister(pending[u].target) = RmwRegister(n))
    /\ op' = [name |-> "read", target |-> n, value |-> Some(value)]
    /\ ret' = Ok(None)
    /\ UNCHANGED <<variant, regs, wrote, alarmSeen>>

\* The register file once caller t has written the byte it read earlier,
\* changed in its own bits.
RmwIntended(t) ==
    LET p == pending[t]
        a == RmwRegister(p.target)
        seen == [regs EXCEPT ![a] = p.data]
        v == CHOOSE x \in p.value : TRUE
    IN  IF variant = "legacy"
        THEN _flag_set(seen, a, LegacyRmwFlags[p.target].mask, v)
        ELSE IF p.target \in DOMAIN Fields
        THEN writeField(seen, Fields[p.target], v)
        ELSE writeFlag(seen, Flags[p.target], v)

\* Second half: self._register(register, bytearray((data,))).
RmwWrite(t) ==
    LET p == pending[t]
        v == CHOOSE x \in p.value : TRUE
    IN  /\ p.target # "none"
        /\ regs' = RmwIntended(t)
        /\ pending' = [pending EXCEPT ![t] = Idle]
        /\ wrote' = IF p.target = "reset"
                    THEN [wrote EXCEPT !["reset"] = p.value, !["stop"] = None]
                    ELSE [wrote EXCEPT ![p.target] = p.value]
        /\ op' = [name |-> "set", target |-> p.target, value |-> p.value]
        /\ ret' = Ok(None)
        /\ alarmSeen' = IF p.target = "alarm_status"
                        THEN (IF v THEN "set" ELSE "cleared")
                        ELSE alarmSeen
        /\ UNCHANGED <<variant, steps, interleaved>>

InitRmw == InitWith({0, 255})

NextRmw ==
    \/ \E t \in Threads : \E n \in DOMAIN RmwValues :
          \E value \in RmwValues[n] : RmwRead(t, n, value)
    \/ \E t \in Threads : RmwWrite(t)

SpecRmw == InitRmw /\ [][NextRmw]_vars

(***************************************************************************)
(* Bus failures.  readfrom_mem and writeto_mem raise OSError when the      *)
(* transfer fails; _register and _flag catch nothing, so the operation     *)
(* ends there with that error.                                             *)
(***************************************************************************)
\* Mutant: the failed read taken as 0 and the operation carried on.
RmwReadFails_carries_on(t, n, value) ==
    /\ steps < MaxOps
    /\ pending[t].target = "none"
    /\ steps' = steps + 1
    /\ pending' = [pending EXCEPT ![t] =
                      [target |-> n, value |-> Some(value), data |-> 0]]
    /\ op' = [name |-> "read", target |-> n, value |-> Some(value)]
    /\ ret' = Err("OSError")
    /\ UNCHANGED <<variant, regs, wrote, alarmSeen, interleaved>>

\* data = self._register(register) raises: _flag is left, nothing is written.
RmwReadFails(t, n, value) ==
    /\ steps < MaxOps
    /\ pending[t].target = "none"
    /\ steps' = steps + 1
    /\ op' = [name |-> "read", target |-> n, value |-> Some(value)]
    /\ ret' = Err("OSError")
    /\ UNCHANGED <<variant, regs, wrote, alarmSeen, pending, interleaved>>

\* self._register(register, bytearray((data,))) raises: _flag is left; the
\* byte has reached the chip or it has not.
RmwWriteFails(t) ==
    /\ pending[t].target # "none"
    /\ regs' \in {regs, RmwIntended(t)}
    /\ pending' = [pending EXCEPT ![t] = Idle]
    /\ op' = [name |-> "set", target |-> pending[t].target,
              value |-> pending[t].value]
    /\ ret' = Err("OSError")
    /\ UNCHANGED <<variant, wrote, alarmSeen, steps, interleaved>>

\* A flag read whose bus read raises.
FlagGetFails(n) ==
    /\ Finish("get", n, None, regs, Err("OSError"))
    /\ UNCHANGED <<wrote, alarmSeen>>

InitBus == InitWith({0, 255})

NextBus ==
    \/ \E t \in SingleOwner : \E n \in DOMAIN RmwValues :
          \E value \in RmwValues[n] : RmwRead(t, n, value)
    \/ \E t \in SingleOwner : RmwWrite(t)
    \/ \E t \in SingleOwner : \E n \in DOMAIN RmwValues :
          \E value \in RmwValues[n] : RmwReadFails(t, n, value)
    \/ \E t \in SingleOwner : RmwWriteFails(t)
    \/ \E n \in DOMAIN RmwValues : FlagGetFails(n)

SpecBus == InitBus /\ [][NextBus]_vars

(***************************************************************************)
(* Properties.                                                             *)
(***************************************************************************)
IsOp(o, name, target) == o.name = name /\ o.target = target
Value(o) == CHOOSE v \in o.value : TRUE
Written(n) == CHOOSE v \in wrote[n] : TRUE

\* What the variant's lost-power accessor returns on register file r.
LostPowerReads(r) ==
    IF variant = "legacy"
    THEN _flag_get(r, PCF8523_lost_power.register, PCF8523_lost_power.mask)
    ELSE readFlag(r, lost_power)

\* C1: after the datetime is set, the lost-power flag of the driver's variant
\* reads false (register 0x03 bit 7 for the package driver, register 0x02
\* bit 3 for the legacy driver), whatever it read before.
C1_SetDatetimeClearsLostPower ==
    (IsOp(op, "set", "datetime") /\ ret.error = "none") => ~LostPowerReads(regs)

\* The package driver's half of C1, which holds.
C1_PackageSetDatetimeClearsLostPower ==
    (variant = "package" /\ IsOp(op, "set", "datetime") /\ ret.error = "none")
    => ~LostPowerReads(regs)

\* The two digits of a BCD byte as a number: 10 * tens + units.
Digits(b) == 10 * (b \div 16) + (b % 16)

ValidTimestamp(t) ==
    /\ t.year \in 2000 .. 2099 /\ t.month \in 1 .. 12 /\ t.day \in 1 .. 31
    /\ t.weekday \in 0 .. 6 /\ t.hour \in 0 .. 23 /\ t.minute \in 0 .. 59
    /\ t.second \in 0 .. 59

\* C2: reading the clock after writing a valid timestamp returns the seven
\* fields written, with millisecond 0.
C2_DateTimeRoundTrip ==
    (IsOp(op, "get", "datetime") /\ wrote["datetime"] # None
        /\ ValidTimestamp(Written("datetime")))
    => ret.value = [Written("datetime") EXCEPT !.millisecond = 0]

C2_Witness ==
    /\ IsOp(op, "get", "datetime")
    /\ wrote["datetime"] = Some(datetime_tuple(2000, 1, 1, 0, 0, 0, 0, 500))
    /\ ret.value = datetime_tuple(2000, 1, 1, 0, 0, 0, 0, 0)
    /\ regs[9] = 0

ValidAlarm(a) ==
    /\ a.minute \in Opt(0 .. 59) /\ a.hour \in Opt(0 .. 23)
    /\ a.day \in Opt(1 .. 31) /\ a.weekday \in Opt(0 .. 6)

\* C3: reading the alarm after writing an alarm specification returns that
\* specification: absent fields absent, present fields unchanged.
C3_AlarmRoundTrip ==
    (IsOp(op, "get", "alarm_time") /\ wrote["alarm_time"] # None
        /\ ValidAlarm(Written("alarm_time")))
    => ret.value = Written("alarm_time")

C3_Witness ==
    /\ IsOp(op, "get", "alarm_time")
    /\ wrote["alarm_time"] = Some(alarm_tuple(None, Some(31), None, Some(59)))
    /\ ret.value = alarm_tuple(None, Some(31), None, Some(59))
    /\ regs[14] = 255

\* C4: for n in 0..99, _bcd2bin(_bin2bcd(n)) = n, and the encoded byte holds
\* the tens digit in its high nibble and the units digit in its low nibble.
C4_BcdRoundTrip ==
    (op.name = "_bcd2bin" /\ Value(op) \in 0 .. 99)
    => /\ ret.value.bin = Value(op)
       /\ ret.value.bcd \div 16 = Value(op) \div 10
       /\ ret.value.bcd % 16 = Value(op) % 10

C4_Witness ==
    op.name = "_bcd2bin" /\ Value(op) = 99 /\ ret.value = [bcd |-> 153, bin |-> 99]

\* C5: reading the clock decodes the block at 0x03 in the order second,
\* minute, hour, day, weekday, month, year, without bit 7 of byte 0 and bits
\* 7-6 of byte 3, and adds 2000 to the year; the example block decodes to
\* 2017-10-29 10:31:00, weekday 0, with bit 7 of byte 0 set or clear.
C5_DateTimeDecode ==
    IsOp(op, "get", "datetime")
    => /\ ret.value = [second |-> Digits(regs[3] % 128),
                       minute |-> Digits(regs[4]),
                       hour |-> Digits(regs[5]),
                       day |-> Digits(regs[6] % 64),
                       weekday |-> Digits(regs[7]),
                       month |-> Digits(regs[8]),
                       year |-> 2000 + Digits(regs[9]),
                       millisecond |-> 0]
       /\ ([i \in 1 .. 7 |-> regs[i + 2]]
              \in {ExampleBlock, [ExampleBlock EXCEPT ![1] = 128]}
           => ret.value = DateTime2017)

C5_Witness ==
    /\ IsOp(op, "get", "datetime")
    /\ [i \in 1 .. 7 |-> regs[i + 2]] = [ExampleBlock EXCEPT ![1] = 128]
    /\ ret.value = DateTime2017

\* The unsigned bit fields of the device: register, offset, width.
UnsignedFields ==
    [power_management |-> <<2, 5, 3>>, clockout_frequency |-> <<15, 3, 3>>,
     timer_enabled |-> <<15, 1, 2>>, timer_frequency |-> <<16, 0, 3>>,
     timerB_frequency |-> <<18, 0, 3>>, timer_value |-> <<17, 0, 8>>,
     timerB_value |-> <<19, 0, 8>>]

FieldBits(r, loc) == (r[loc[1]] \div (2 ^ loc[2])) % (2 ^ loc[3])

\* C6: for every unsigned bit field, any prior register content and any value
\* v of the field's width, the write puts v in the field's bits and a
\* following read of the field returns v.
C6_FieldRoundTrip ==
    \A n \in DOMAIN UnsignedFields :
        /\ (IsOp(op, "set", n) /\ Value(op) \in 0 .. 2 ^ UnsignedFields[n][3] - 1)
           => FieldBits(regs, UnsignedFields[n]) = Value(op)
        /\ (IsOp(op, "get", n) /\ wrote[n] # None
               /\ Written(n) \in 0 .. 2 ^ UnsignedFields[n][3] - 1)
           => ret.value = Written(n)

C6_Witness ==
    /\ IsOp(op, "get", "clockout_frequency")
    /\ wrote["clockout_frequency"] = Some(5)
    /\ ret.value = 5
    /\ regs[15] = 239

\* The bits (as a byte mask) of the accessor named n, and its register.
OwnMask(n) ==
    IF variant = "legacy" THEN LegacyFlags[n].mask
    ELSE IF n \in DOMAIN Fields THEN bit_mask(Fields[n])
    ELSE Flags[n].bit_mask

IsAccessor(n) ==
    IF variant = "legacy" THEN n \in DOMAIN LegacyFlags
    ELSE n \in (DOMAIN Fields) \cup (DOMAIN Flags)

\* C7: a flag write or a field write (a negative calibration included)
\* changes no bit outside its own mask in its own register, and no other
\* register.
C7_WriteFrame ==
    [][ (op'.name = "set" /\ IsAccessor(op'.target))
        => \A a \in Addrs :
              IF a = TargetRegister(op'.target)
              THEN BitClear(regs'[a], OwnMask(op'.target))
                   = BitClear(regs[a], OwnMask(op'.target))
              ELSE regs'[a] = regs[a] ]_vars

\* Calibration -1 written over 0x80: schedule-per-minute (bit 7) stays set.
C7_Witness ==
    /\ IsOp(op, "set", "calibration") /\ Value(op) = -1
    /\ regs[14] = 255 /\ regs[13] = 128

\* C8: the signed 7-bit calibration field returns any written v in -64..63.
C8_CalibrationRoundTrip ==
    (IsOp(op, "get", "calibration") /\ wrote["calibration"] # None
        /\ Written("calibration") \in -64 .. 63)
    => ret.value = Written("calibration")

C8_Witness ==
    /\ IsOp(op, "get", "calibration")
    /\ wrote["calibration"] = Some(-64)
    /\ ret.value = -64
    /\ regs[14] = 192

\* C9 as claimed: a calibration outside -64..63 is rejected with
\* InvalidArgument and register 0x0E is left unchanged.
C9_OutOfRangeRejected ==
    [][ (IsOp(op', "set", "calibration") /\ Value(op') \notin -64 .. 63)
        => (ret'.error = "InvalidArgument" /\ regs'[14] = regs[14]) ]_vars

\* What the accessor does instead with a calibration in 64..127: no error;
\* the low 7 bits are written to bits 6-0 of register 0x0E with bit 7
\* unchanged, and the field then reads back value - 128 (64 reads as -64).
C9_OutOfRangeWraps ==
    [][ /\ (IsOp(op', "set", "calibration") /\ Value(op') \in 64 .. 127)
           => /\ ret'.error = "none"
              /\ regs'[14] = 128 * Bit(regs[14], 7) + Value(op')
        /\ (IsOp(op', "get", "calibration") /\ wrote'["calibration"] # None
               /\ Value([value |-> wrote'["calibration"]]) \in 64 .. 127)
           => ret'.value = Value([value |-> wrote'["calibration"]]) - 128 ]_vars

C9_Witness ==
    /\ IsOp(op, "get", "calibration")
    /\ wrote["calibration"] = Some(64)
    /\ ret.value = -64
    /\ regs[14] = 192

\* C10: once the alarm status flag (register 0x01 bit 3) has been cleared by
\* writing False, it is clear and every read of it returns False until it is
\* set again (by the chip, or by a caller writing True); once set, it stays
\* set and keeps reading True across reads and every other operation, until
\* it is cleared by writing False.
C10_AlarmFlag ==
    /\ alarmSeen = "cleared"
       => /\ Bit(regs[1], 3) = 0
          /\ (op.name = "get" /\ op.target \in {"alarm", "alarm_status"})
             => ret.value = FALSE
    /\ alarmSeen = "set"
       => /\ Bit(regs[1], 3) = 1
          /\ (op.name = "get" /\ op.target \in {"alarm", "alarm_status"})
             => ret.value = TRUE

\* A read after the flag, set at construction among the other bits of the
\* register, was cleared: the other bits are still set.
C10_Witness ==
    /\ alarmSeen = "cleared"
    /\ op.name = "get" /\ op.target \in {"alarm", "alarm_status"}
    /\ ret.value = FALSE
    /\ regs[1] = 247

\* Register of each alarm field: minute, hour, day, weekday from 0x0A on.
AlarmRegister == [minute |-> 10, hour |-> 11, day |-> 12, weekday |-> 13]

\* C11: writing an alarm puts exactly 0x80 in the byte of each absent field
\* and, for each present in-range field, a byte with bit 7 clear holding the
\* field's two digits, in the order minute, hour, day, weekday from 0x0A;
\* reading the alarm reports a field absent whenever bit 7 of its byte is
\* set, whatever the low 7 bits are.
C11_AlarmSentinel ==
    /\ (IsOp(op, "set", "alarm_time") /\ ValidAlarm(Value(op)))
       => \A f \in DOMAIN AlarmRegister :
             IF Value(op)[f] = None
             THEN regs[AlarmRegister[f]] = 128
             ELSE /\ Bit(regs[AlarmRegister[f]], 7) = 0
                  /\ Some(Digits(regs[AlarmRegister[f]])) = Value(op)[f]
    /\ IsOp(op, "get", "alarm_time")
       => \A f \in DOMAIN AlarmRegister :
             Bit(regs[AlarmRegister[f]], 7) = 1 => ret.value[f] = None

\* All four fields absent written over an enabled alarm: four bytes 0x80.
C11_Witness ==
    /\ IsOp(op, "set", "alarm_time")
    /\ Value(op) = alarm_tuple(None, None, None, None)
    /\ [i \in 1 .. 4 |-> regs[i + 9]] = <<128, 128, 128, 128>>

\* A read of a block whose minute byte is 0xFF beside three enabled fields.
C11_DecodeWitness ==
    /\ IsOp(op, "get", "alarm_time")
    /\ [i \in 1 .. 4 |-> regs[i + 9]] = <<255, 7, 1, 2>>
    /\ ret.value = alarm_tuple(Some(2), Some(1), Some(7), None)

\* C12 as claimed: setting the datetime writes the power-management field
\* (register 0x02 bits 7-5) to 0b000 as part of the same operation, keeping
\* bits 4-0 of register 0x02; after any datetime set that returned without
\* error, the value last written to the field is 0b000 and the field reads
\* 0b000.
C12_SetDatetimeStandardMode ==
    [][ (IsOp(op', "set", "datetime") /\ ret'.error = "none")
        => /\ wrote'["power_management"]
                 = Some(STANDARD_BATTERY_SWITCHOVER_AND_DETECTION)
           /\ FieldBits(regs', UnsignedFields["power_management"])
                 = STANDARD_BATTERY_SWITCHOVER_AND_DETECTION
           /\ regs'[2] % 32 = regs[2] % 32 ]_vars

\* The legacy datetime write on a chip whose registers held 0xFF at
\* construction: register 0x02 is as init() left it and no operation has
\* written the power-management field.
C12_LegacyNoWrite ==
    /\ variant = "legacy" /\ steps = 1
    /\ IsOp(op, "set", "datetime") /\ ret.error = "none"
    /\ wrote["power_management"] = None
    /\ regs[2] = 31 /\ regs[3] = 0

\* The package setter's two accesses, which do what is claimed as long as
\* they follow each other directly: the first writes bits 7-5 of register
\* 0x02 to 0b000 keeping bits 4-0, the second leaves register 0x02 alone.
C12_PackageSetterAccesses ==
    [][ /\ IsOp(op', "begin", "datetime")
           => /\ FieldBits(regs', UnsignedFields["power_management"])
                    = STANDARD_BATTERY_SWITCHOVER_AND_DETECTION
              /\ regs'[2] % 32 = regs[2] % 32
        /\ (variant = "package" /\ IsOp(op', "set", "datetime")
               /\ pending' # pending)
           => /\ regs'[2] = regs[2]
              /\ (IsOp(op, "begin", "datetime") /\ ret'.error = "none")
                 => readField(regs', power_management)
                       = STANDARD_BATTERY_SWITCHOVER_AND_DETECTION ]_vars

\* The first operation on a chip whose register 0x02 held 0xFF: the package
\* setter has cleared bits 7-5 and kept bits 4-0.
C12_PackageWitness ==
    /\ variant = "package" /\ steps = 1
    /\ IsOp(op, "set", "datetime") /\ ret.error = "none"
    /\ regs[2] = 31
    /\ wrote["power_management"] = Some(STANDARD_BATTERY_SWITCHOVER_AND_DETECTION)

\* Inside the setter, after its first access: another caller reads power
\* management 0 while the clock still holds what it held.
C12_InsideSetter ==
    /\ variant = "package"
    /\ pending[1].target = "datetime"
    /\ IsOp(op, "get", "power_management") /\ ret.value = 0
    /\ regs[2] = 31 /\ regs[4] = 255

\* Another caller's power_management = 7 between the two accesses: the
\* setter returns without error and the field reads 7.
C12_OverwrittenInside ==
    /\ variant = "package"
    /\ IsOp(op, "set", "datetime") /\ ret.error = "none"
    /\ readField(regs, power_management) = BATTERY_SWITCHOVER_OFF

\* The setter's first access raised: the datetime block is as it was.
C12_FirstAccessRaised ==
    /\ variant = "package" /\ steps = 1
    /\ IsOp(op, "set", "datetime") /\ ret.error = "OSError"
    /\ pending[1] = Idle
    /\ regs[2] = 31 /\ regs[3] = 255

\* The setter's second access raised with three bytes of the block stored.
C12_SecondAccessRaised ==
    /\ variant = "package" /\ steps = 1
    /\ IsOp(op, "set", "datetime") /\ ret.error = "OSError"
    /\ regs[2] = 31 /\ regs[5] = 16 /\ regs[6] = 255

\* What the accessor named n reads on register file r.
RmwReads(n, r) ==
    IF variant = "legacy"
    THEN _flag_get(r, LegacyRmwFlags[n].register, LegacyRmwFlags[n].mask)
    ELSE IF n \in DOMAIN Fields THEN readField(r, Fields[n])
    ELSE readFlag(r, Flags[n])

\* C13: as long as no two read-modify-writes of one register have overlapped,
\* every update made is present in its register (both of two updates to
\* different bits of one register); when they overlap, the update written
\* last is still present, so at most the other one is lost, and the
\* overlapping schedule that loses it exists (C13_Witness).
C13_SerialUpdatesKept ==
    /\ ~interleaved
       => \A n \in DOMAIN RmwValues :
             wrote[n] # None => Some(RmwReads(n, regs)) = wrote[n]
    /\ op.name = "set" => Some(RmwReads(op.target, regs)) = op.value

\* Clock-out frequency 7 and timer-A enable 3 both written on register 0x0F
\* = 0x00, overlapping: the register holds 0x06, the frequency is lost.
C13_Witness ==
    /\ variant = "package" /\ interleaved
    /\ \A t \in Threads : pending[t] = Idle
    /\ wrote["clockout_frequency"] = Some(7)
    /\ wrote["timer_enabled"] = Some(3)
    /\ regs[15] = 6
    /\ RmwReads("clockout_frequency", regs) = 0

\* The same two writes one after the other: 0x3E, both present.
C13_SerialWitness ==
    /\ variant = "package" /\ ~interleaved
    /\ wrote["clockout_frequency"] = Some(7)
    /\ wrote["timer_enabled"] = Some(3)
    /\ regs[15] = 62

\* Legacy driver: stop(True) overlapped by the interrupt enable of alarm_time
\* on register 0x00 = 0x00 leaves 0x02, stop is lost.
C13_LegacyWitness ==
    /\ variant = "legacy" /\ interleaved
    /\ \A t \in Threads : pending[t] = Idle
    /\ wrote["stop"] = Some(TRUE)
    /\ wrote["alarm_interrupt"] = Some(TRUE)
    /\ regs[0] = 2

\* C14: an operation whose bus transfer fails returns the bus error.  When
\* the read fails (in a flag read, or as the first half of a flag or field
\* write) no register changes and the caller is not left inside a
\* read-modify-write, so no write follows; when the write fails the caller
\* leaves the read-modify-write with the error, so the write is not issued
\* again, and no register other than by that one write has changed.
C14_BusErrorPropagates ==
    [][ ret'.error = "OSError"
        => /\ wrote' = wrote
           /\ IF op'.name \in {"read", "get"}
              THEN regs' = regs /\ pending' = pending
              ELSE \E t \in Threads :
                      /\ pending[t].target = op'.target
                      /\ pending[t].value = op'.value
                      /\ pending' = [pending EXCEPT ![t] = Idle]
                      /\ regs' \in {regs, RmwIntended(t)} ]_vars

\* stop(True) on the legacy driver ended by a failed read: register 0x00
\* still 0x00 and no caller inside a read-modify-write.
C14_Witness ==
    /\ variant = "legacy"
    /\ IsOp(op, "read", "stop") /\ op.value = Some(TRUE)
    /\ ret = Err("OSError")
    /\ regs[0] = 0
    /\ \A t \in Threads : pending[t] = Idle

\* stop(True) ended by a failed write after which the chip holds the byte.
C14_WriteWitness ==
    /\ variant = "legacy" /\ steps = 1
    /\ IsOp(op, "set", "stop") /\ op.value = Some(TRUE)
    /\ ret = Err("OSError")
    /\ regs[0] = 16
    /\ wrote["stop"] = None
    /\ \A t \in Threads : pending[t] = Idle

\* C15: after a datetime write with any second and any day in 0..255, bit 7
\* of the seconds byte (register 0x03) and bits 7-6 of the day byte (register
\* 0x06) are 0, so the write never sets the status flag in bit 7 of
\* register 0x03.
C15_EncodeClearsTopBits ==
    (IsOp(op, "set", "datetime") /\ ret.error = "none"
        /\ Value(op).second \in Byte /\ Value(op).day \in Byte)
    => /\ Bit(regs[3], 7) = 0
       /\ regs[6] \div 64 = 0

\* What does hold: the top bits are clear when the masked second is below 80
\* and the masked day below 40, which covers every valid second and day.
C15_EncodeClearsTopBitsBelow80 ==
    (IsOp(op, "set", "datetime") /\ ret.error = "none"
        /\ Value(op).second % 128 < 80 /\ Value(op).day % 64 < 40)
    => /\ Bit(regs[3], 7) = 0
       /\ regs[6] \div 64 = 0

\* The flags and fields on the shared registers, battery-low included.
SharedAccessors ==
    IF variant = "legacy" THEN DOMAIN LegacyFlags
    ELSE SharedFlags \cup DOMAIN SharedFieldValues

\* What the accessor named n reads on register file r.
ReadsBack(n, r) ==
    IF variant = "legacy"
    THEN _flag_get(r, LegacyFlags[n].register, LegacyFlags[n].mask)
    ELSE IF n \in DOMAIN Fields THEN readField(r, Fields[n])
    ELSE readFlag(r, Flags[n])

\* C16: the flags and fields declared on one register occupy pairwise
\* disjoint bits within the byte; after any sequence of flag and field
\* writes, each run to completion and with values of the field's range,
\* every flag and field reads back the value most recently written to it;
\* and no write changes the battery-low bit, register 0x02 bit 2.
C16_SharedRegisterAccessors ==
    [][ /\ \A n \in SharedAccessors :
              /\ OwnMask(n) \in 1 .. 255
              /\ \A m \in SharedAccessors \ {n} :
                    TargetRegister(n) = TargetRegister(m)
                    => BitAnd(OwnMask(n), OwnMask(m)) = 0
        /\ \A n \in SharedAccessors :
              wrote'[n] # None => Some(ReadsBack(n, regs')) = wrote'[n]
        /\ Bit(regs'[2], 2) = Bit(regs[2], 2) ]_vars

\* Three accessors of register 0x0F written in turn over 0x55: clock-out
\* frequency 5, timer-A enable 2, timer-A pulsed; timer-B enable and
\* timer-B pulsed keep what the chip held.
C16_Witness ==
    /\ variant = "package"
    /\ wrote["clockout_frequency"] = Some(5)
    /\ wrote["timer_enabled"] = Some(2)
    /\ wrote["timer_pulsed"] = Some(TRUE)
    /\ regs[15] = 237

\* Power management written over 0xFF: battery-low still set.
C16_BatteryLowWitness ==
    /\ variant = "package"
    /\ wrote["power_management"] = Some(5)
    /\ regs[2] = 191
    /\ ReadsBack("battery_low", regs)

====
